---- MODULE Spec2Model ----
(***************************************************************************)
(* Model of the onlyupou Scrapy project: the Doris ingestion pipeline      *)
(* (pipelines.py: DorisPipeline, DorisStreamLoader), the spiders' target   *)
(* hints (spiders/base.py, spiders/example.py) and the Redis proxy         *)
(* middleware (middlewares.py: RedisProxyMiddleware).                      *)
(*                                                                         *)
(* Python values are modelled as strings; None and a missing attribute are *)
(* the two distinguished strings below.  A (database, table) tuple is a    *)
(* TLA+ tuple; the falsy results None and () are both the empty tuple.     *)
(***************************************************************************)
EXTENDS Integers, Sequences, FiniteSets, TLC

\* ---------------------------------------------------------------- bounds
MaxItems == 4
MaxBatch == 2
MaxCloses == 2
MaxCalls == 3
MaxLoads == 3
MaxFlushes == 1

\* ------------------------------------------------------- python values
None == "<None>"
Absent == "<absent>"

\* Python truthiness of a string-or-None value (bool(x)).
Truthy(v) == v \notin {None, Absent, ""}

VARIABLES
    spider,            \* the spider the crawl runs (one per pipeline)
    default_database,  \* DorisPipeline.default_database
    default_table,     \* DorisPipeline.default_table
    batch_size,        \* DorisPipeline.batch_size
    buffers,           \* DorisPipeline.buffers: key -> list of records
    buffer_keys,       \* insertion order of the keys of DorisPipeline.buffers
    loads,             \* every DorisStreamLoader.load call, in call order
    submitted,         \* every record appended to a buffer: <<id, key>>
    nitems,            \* number of process_item calls made
    closes,            \* number of close_spider calls made
    flushes,           \* number of direct _flush calls made
    last,              \* the last pipeline call: its input and how it ended
    meta,              \* request.meta.get("proxy") of the request
    fallback_proxy,    \* RedisProxyMiddleware.fallback_proxy
    store,             \* members of the Redis key the middleware reads
    queries,           \* number of srandmember queries issued
    calls,             \* number of process_request calls made
    lastreq,           \* the last process_request call: what it saw and did
    extra_headers,     \* DorisStreamLoader.extra_headers, in dict order
    user,              \* DorisStreamLoader.user
    http,              \* every HTTP request urlopen sent, with its response
    uuids,             \* number of uuid.uuid4() values drawn
    lastload           \* the last DorisStreamLoader.load call and how it ended

pipevars == <<spider, default_database, default_table, batch_size, buffers,
              buffer_keys, loads, submitted, nitems, closes, flushes, last>>
proxyvars == <<meta, fallback_proxy, store, queries, calls, lastreq>>
loadervars == <<extra_headers, user, http, uuids, lastload>>
vars == <<pipevars, proxyvars, loadervars>>

\* ============================================================ spiders
\* base.py DorisTargetMixin.get_doris_target: the two attributes as they are.
MixinGetter(sp, item) == <<sp.doris_database, sp.doris_table>>

\* example.py QuotesSpider.get_doris_target.
QuotesGetter(sp, item) ==
    IF item.description
    THEN <<IF Truthy(sp.doris_database) THEN sp.doris_database ELSE "demo",
           IF Truthy(sp.doris_table) THEN sp.doris_table ELSE "quotes">>
    ELSE <<IF Truthy(sp.doris_database) THEN sp.doris_database ELSE "demo",
           "quotes_unknown_author">>

\* What a spider's own get_doris_target (any callable a spider defines)
\* may return for an item: None, or a (database, table) tuple.
Overrides == { <<>>, <<"demo", "authors">>, <<None, None>>, <<"demo", "">> }

\* getattr(spider, "get_doris_target", None) applied to the item.
CallGetter(sp, item) ==
    CASE sp.getter = "mixin" -> MixinGetter(sp, item)
      [] sp.getter = "quotes" -> QuotesGetter(sp, item)
      [] sp.getter = "custom" -> item.target
      [] OTHER -> <<>>

\* Spiders: a plain scrapy.Spider (attributes possibly missing, possibly its
\* own get_doris_target) or a DorisSpider subclass (attributes always there,
\* None unless set; the mixin's getter, QuotesSpider's, or its own).
Spiders ==
    [getter : {"absent", "custom"},
     doris_database : {Absent, "demo"},
     doris_table : {Absent, "quotes"}]
    \cup
    [getter : {"mixin", "quotes", "custom"},
     doris_database : {None, "demo"},
     doris_table : {None, "", "quotes"}]

\* The items a spider can yield: only the fields its getter reads vary.
Items(sp) ==
    IF sp.getter = "custom"
    THEN [description : {TRUE}, target : Overrides]
    ELSE IF sp.getter = "quotes"
    THEN [description : BOOLEAN, target : {<<>>}]
    ELSE [description : {TRUE}, target : {<<>>}]

\* ============================================================ pipeline
\* getattr(obj, name, default)
GetAttr(value, default) == IF value = Absent THEN default ELSE value

\* DorisPipeline._resolve_target
_resolve_target(sp, item) ==
    LET resolved == IF sp.getter # "absent" THEN CallGetter(sp, item) ELSE <<>>
        database1 == IF resolved # <<>> THEN resolved[1] ELSE default_database
        table1 == IF resolved # <<>> THEN resolved[2] ELSE default_table
        database == GetAttr(sp.doris_database, database1)
        table == GetAttr(sp.doris_table, table1)
    IN  IF ~Truthy(database) \/ ~Truthy(table)
        THEN [raised |-> TRUE, database |-> database, table |-> table]
        ELSE [raised |-> FALSE, database |-> database, table |-> table]

\* One DorisStreamLoader.load call as the bulk endpoint sees it; live is
\* what the pipeline's buffer of that key holds while the call runs; ok is
\* whether urlopen returned a 2xx response (otherwise load raises).
LoadCall(database, table, records, live, ok) ==
    [database |-> database, table |-> table, records |-> records,
     live |-> live, ok |-> ok]

\* _flush as the drain-then-load variant: the buffer is cleared before the
\* load call, so a failed load leaves it empty.
_flush_drain_first(database, table, buffer, ok) ==
    IF buffer = <<>>
    THEN [buffer |-> buffer, calls |-> <<>>, raised |-> FALSE]
    ELSE [buffer |-> <<>>,
          calls |-> <<LoadCall(database, table, buffer, <<>>, ok)>>,
          raised |-> ~ok]

\* _flush without the buffer.clear() after a successful load.
_flush_no_clear(database, table, buffer, ok) ==
    IF buffer = <<>>
    THEN [buffer |-> buffer, calls |-> <<>>, raised |-> FALSE]
    ELSE [buffer |-> buffer,
          calls |-> <<LoadCall(database, table, buffer, buffer, ok)>>,
          raised |-> ~ok]

\* _flush without the early return on an empty buffer.
_flush_unguarded(database, table, buffer, ok) ==
    IF ok
    THEN [buffer |-> <<>>,
          calls |-> <<LoadCall(database, table, buffer, buffer, TRUE)>>,
          raised |-> FALSE]
    ELSE [buffer |-> buffer,
          calls |-> <<LoadCall(database, table, buffer, buffer, FALSE)>>,
          raised |-> TRUE]

\* DorisPipeline._flush on a buffer; ok is the outcome of the load call.
\* Yields the buffer afterwards, the load calls made, whether it raised.
_flush(database, table, buffer, ok) ==
    IF buffer = <<>>
    THEN [buffer |-> buffer, calls |-> <<>>, raised |-> FALSE]
    ELSE IF ok
         THEN [buffer |-> <<>>,
               calls |-> <<LoadCall(database, table, buffer, buffer, TRUE)>>,
               raised |-> FALSE]
         ELSE [buffer |-> buffer,
               calls |-> <<LoadCall(database, table, buffer, buffer, FALSE)>>,
               raised |-> TRUE]

\* The threshold test with > in place of >=.
ThresholdExceeded(buffer) == Len(buffer) > batch_size

\* len(buffer) >= self.batch_size
ThresholdReached(buffer) == Len(buffer) >= batch_size

\* The record put at the front of the buffer instead of its end.
BufferPrepend(buffer, record) == <<record>> \o buffer

\* buffer.append(ItemAdapter(item).asdict())
BufferAppend(buffer, record) == Append(buffer, record)

\* setdefault handing a new key the list of the first key (one shared list).
SetDefaultShared(key) ==
    IF key \in DOMAIN buffers THEN buffers[key]
    ELSE IF buffer_keys # << >> THEN buffers[buffer_keys[1]]
    ELSE << >>

\* self.buffers.setdefault(key, [])
SetDefault(key) == IF key \in DOMAIN buffers THEN buffers[key] ELSE <<>>

NoCall == [op |-> "none", item |-> [description |-> TRUE, target |-> <<>>],
           outcome |-> "ok", key |-> <<>>]

\* DorisPipeline.process_item(item, spider); ok: outcome of a load, if made.
process_item(item, ok) ==
    /\ closes = 0
    /\ nitems < MaxItems
    /\ nitems' = nitems + 1
    /\ LET target == _resolve_target(spider, item)
           key == <<target.database, target.table>>
           record == nitems + 1
       IN  IF target.raised
           THEN /\ last' = [op |-> "process_item", item |-> item,
                            outcome |-> "ValueError", key |-> <<>>]
                /\ UNCHANGED <<buffers, buffer_keys, loads, submitted>>
           ELSE LET buffer == BufferAppend(SetDefault(key), record)
                    flushed == IF ThresholdReached(buffer)
                               THEN _flush(target.database, target.table, buffer, ok)
                               ELSE [buffer |-> buffer, calls |-> <<>>,
                                     raised |-> FALSE]
                IN  /\ buffers' = [k \in DOMAIN buffers \cup {key} |->
                                     IF k = key THEN flushed.buffer ELSE buffers[k]]
                    /\ buffer_keys' = IF key \in DOMAIN buffers
                                      THEN buffer_keys
                                      ELSE Append(buffer_keys, key)
                    /\ submitted' = Append(submitted, <<record, key>>)
                    /\ loads' = loads \o flushed.calls
                    /\ last' = [op |-> "process_item", item |-> item,
                                outcome |-> IF flushed.raised THEN "LoadError"
                                            ELSE "ok",
                                key |-> key]
    /\ UNCHANGED <<spider, default_database, default_table, batch_size, closes,
                   flushes>>
    /\ UNCHANGED proxyvars
    /\ UNCHANGED loadervars

\* The loop of DorisPipeline.close_spider over list(self.buffers.items()),
\* from position i on; failing is the set of keys whose load would fail.
\* The first load that raises ends the loop.
RECURSIVE CloseLoop(_, _, _, _)
CloseLoop(i, bufs, made, failing) ==
    IF i > Len(buffer_keys)
    THEN [buffers |-> bufs, calls |-> made, raised |-> FALSE, key |-> <<>>]
    ELSE LET key == buffer_keys[i]
             buffer == bufs[key]
         IN  IF buffer # <<>>
             THEN LET flushed == _flush(key[1], key[2], buffer, key \notin failing)
                      bufs2 == [bufs EXCEPT ![key] = flushed.buffer]
                  IN  IF flushed.raised
                      THEN [buffers |-> bufs2, calls |-> made \o flushed.calls,
                            raised |-> TRUE, key |-> key]
                      ELSE CloseLoop(i + 1, bufs2, made \o flushed.calls, failing)
             ELSE CloseLoop(i + 1, bufs, made, failing)

\* DorisPipeline.close_spider(spider)
close_spider(failing) ==
    /\ closes < MaxCloses
    /\ closes' = closes + 1
    /\ LET done == CloseLoop(1, buffers, <<>>, failing)
       IN  /\ buffers' = done.buffers
           /\ loads' = loads \o done.calls
           /\ last' = [op |-> "close_spider", item |-> NoCall.item,
                       outcome |-> IF done.raised THEN "LoadError" ELSE "ok",
                       key |-> done.key]
    /\ UNCHANGED <<spider, default_database, default_table, batch_size,
                   buffer_keys, submitted, nitems, flushes>>
    /\ UNCHANGED proxyvars
    /\ UNCHANGED loadervars

\* A direct call self._flush(database, table, self.buffers[key]) on a
\* buffer the pipeline holds, as a host flushing one destination makes it.
flush(key, ok) ==
    /\ flushes < MaxFlushes
    /\ flushes' = flushes + 1
    /\ key \in DOMAIN buffers
    /\ LET flushed == _flush(key[1], key[2], buffers[key], ok)
       IN  /\ buffers' = [buffers EXCEPT ![key] = flushed.buffer]
           /\ loads' = loads \o flushed.calls
           /\ last' = [op |-> "flush", item |-> NoCall.item,
                       outcome |-> IF flushed.raised THEN "LoadError" ELSE "ok",
                       key |-> key]
    /\ UNCHANGED <<spider, default_database, default_table, batch_size,
                   buffer_keys, submitted, nitems, closes>>
    /\ UNCHANGED proxyvars
    /\ UNCHANGED loadervars

\* ---------------------------------------------------------------- init
\* DorisPipeline.__init__: any defaults and batch size the caller passes.
Defaults == { <<"demo", "items">>, <<"", "items">>, <<"", "">> }
BatchSizes == {-1, 0} \cup (1 .. MaxBatch)

PipeInit ==
    /\ spider \in Spiders
    /\ \E d \in Defaults : default_database = d[1] /\ default_table = d[2]
    /\ batch_size \in BatchSizes
    /\ buffers = << >>
    /\ buffer_keys = << >>
    /\ loads = << >>
    /\ submitted = << >>
    /\ nitems = 0
    /\ closes = 0
    /\ flushes = 0
    /\ last = NoCall

\* ========================================================= middleware
\* What the Redis key may hold: text or bytes members.  A member's data is
\* a sequence of pieces, each one valid UTF-8 text or the undecodable byte.
BadByte == "\\xff"
Members ==
    { [type |-> "str", data |-> <<"http://p1:80">>],
      [type |-> "str", data |-> << >>],
      [type |-> "bytes", data |-> <<"http://p2:80">>],
      [type |-> "bytes", data |-> <<"http://p2:80", BadByte>>],
      [type |-> "bytes", data |-> <<BadByte>>] }

RECURSIVE Join(_)
Join(pieces) ==
    IF pieces = << >> THEN "" ELSE Head(pieces) \o Join(Tail(pieces))

\* bytes.decode(encoding, errors="ignore"): undecodable bytes are dropped.
Decode(data) == Join(SelectSeq(data, LAMBDA b : b # BadByte))

\* client.srandmember(key): a random member, None for an empty or missing
\* key, or a connectivity error.
Srandmember == { [kind |-> "error"] }
               \cup (IF store = {} THEN { [kind |-> "nil"] }
                     ELSE { [kind |-> "member", member |-> m] : m \in store })

\* No query was made.
NoReply == [kind |-> "none"]

\* _get_proxy with bytes handed on as they are, without decode().
_get_proxy_no_decode(reply) ==
    IF reply.kind = "error" THEN None
    ELSE IF reply.kind = "nil" THEN None
    ELSE Join(reply.member.data)

\* _get_proxy with the except clause returning the exception, not None.
_get_proxy_returns_error(reply) ==
    IF reply.kind = "error" THEN "ConnectionError"
    ELSE IF reply.kind = "nil" THEN None
    ELSE IF reply.member.type = "bytes" THEN Decode(reply.member.data)
    ELSE Join(reply.member.data)

\* RedisProxyMiddleware._get_proxy, given the reply of the one query.
_get_proxy(reply) ==
    IF reply.kind = "error" THEN None
    ELSE IF reply.kind = "nil" THEN None
    ELSE IF reply.member.type = "bytes" THEN Decode(reply.member.data)
    ELSE Join(reply.member.data)

\* The early-return test inverted.
HasNoProxy(m) == ~Truthy(m)

\* if request.meta.get("proxy"): return
HasProxy(m) == Truthy(m)

\* RedisProxyMiddleware.process_request(request, spider)
process_request(reply) ==
    /\ calls < MaxCalls
    /\ calls' = calls + 1
    /\ IF HasProxy(meta)
       THEN /\ lastreq' = [op |-> "process_request", before |-> meta,
                           queried |-> FALSE, reply |-> NoReply]
            /\ UNCHANGED <<meta, queries>>
       ELSE LET proxy == _get_proxy(reply)
            IN  /\ queries' = queries + 1
                /\ lastreq' = [op |-> "process_request", before |-> meta,
                               queried |-> TRUE, reply |-> reply]
                /\ meta' = IF Truthy(proxy) THEN proxy
                           ELSE IF Truthy(fallback_proxy) THEN fallback_proxy
                           ELSE meta
    /\ UNCHANGED <<fallback_proxy, store>>
    /\ UNCHANGED pipevars
    /\ UNCHANGED loadervars

\* The engine hands the middleware another request; the caller may have
\* set meta["proxy"] on it (to a proxy, to None or to "") or not at all.
CallerProxies == {Absent, None, "", "http://caller:80"}

new_request(m) ==
    /\ meta' = m
    /\ lastreq' = [op |-> "new_request", before |-> meta, queried |-> FALSE,
                   reply |-> NoReply]
    /\ UNCHANGED <<fallback_proxy, store, queries, calls>>
    /\ UNCHANGED pipevars
    /\ UNCHANGED loadervars

\* Other clients add proxies to and remove them from the Redis key.
store_change(s) ==
    /\ s # store
    /\ store' = s
    /\ lastreq' = [lastreq EXCEPT !.op = "store_change"]
    /\ UNCHANGED <<meta, fallback_proxy, queries, calls>>
    /\ UNCHANGED pipevars
    /\ UNCHANGED loadervars

\* RedisProxyMiddleware.__init__
Fallbacks == {None, "", "http://fallback:80"}

ProxyInit ==
    /\ meta \in CallerProxies
    /\ fallback_proxy \in Fallbacks
    /\ store \in SUBSET Members
    /\ queries = 0
    /\ calls = 0
    /\ lastreq = [op |-> "none", before |-> Absent, queried |-> FALSE,
                  reply |-> NoReply]

PipeIdle ==
    /\ spider = [getter |-> "absent", doris_database |-> Absent,
                 doris_table |-> Absent]
    /\ default_database = "demo"
    /\ default_table = "items"
    /\ batch_size = 1
    /\ buffers = << >>
    /\ buffer_keys = << >>
    /\ loads = << >>
    /\ submitted = << >>
    /\ nitems = 0
    /\ closes = 0
    /\ flushes = 0
    /\ last = NoCall

ProxyIdle ==
    /\ meta = Absent
    /\ fallback_proxy = None
    /\ store = {}
    /\ queries = 0
    /\ calls = 0
    /\ lastreq = [op |-> "none", before |-> Absent, queried |-> FALSE,
                  reply |-> NoReply]

\* ============================================================= loader
\* DorisStreamLoader.__init__ defaults.
host == "http://doris:8030"
password == ""
label_prefix == "scrapy"

\* str.capitalize() on the header names in use (urllib's Request.add_header
\* stores a header under key.capitalize()).
Capitalize(name) ==
    CASE name = "Content-Type" -> "Content-type"
      [] name = "format" -> "Format"
      [] name = "strip_outer_array" -> "Strip_outer_array"
      [] name = "label" -> "Label"
      [] name = "LABEL" -> "Label"
      [] name = "Authorization" -> "Authorization"
      [] name = "timeout" -> "Timeout"

\* urllib.request.Request.add_header(key, val)
add_header(headers, key, val) ==
    [k \in DOMAIN headers \cup {Capitalize(key)} |->
        IF k = Capitalize(key) THEN val ELSE headers[k]]

\* for header, value in self.extra_headers.items(): request.add_header(...)
RECURSIVE AddExtraHeaders(_, _)
AddExtraHeaders(headers, extra) ==
    IF extra = << >> THEN headers
    ELSE AddExtraHeaders(add_header(headers, Head(extra)[1], Head(extra)[2]),
                         Tail(extra))

\* str(uuid.uuid4()): the n-th value drawn; no two draws are equal.
Uuid4(n) == "uuid" \o ToString(n)

\* DorisStreamLoader._generate_label, at the n-th draw.
_generate_label(n) == label_prefix \o "-" \o Uuid4(n)

\* The request DorisStreamLoader.load builds, its label drawn as the n-th.
BuildRequest(database, table, records, n) ==
    LET h1 == add_header(<< >>, "Content-Type", "application/json; charset=UTF-8")
        h2 == add_header(h1, "format", "json")
        h3 == add_header(h2, "strip_outer_array", "true")
        h4 == add_header(h3, "label", _generate_label(n))
        h5 == IF user # ""
              THEN add_header(h4, "Authorization",
                              "Basic b64(" \o user \o ":" \o password \o ")")
              ELSE h4
    IN  [method |-> "PUT",
         url |-> host \o "/api/" \o database \o "/" \o table \o "/_stream_load",
         headers |-> AddExtraHeaders(h5, extra_headers),
         body |-> records]

\* What urlopen may meet: a response with a status code, or no response
\* at all (connection refused, timeout, DNS).
Responses ==
    { [kind |-> "status", code |-> c] : c \in {200, 204, 307, 500} }
    \cup { [kind |-> "neterror", code |-> 0] }

\* load with the HTTPError logged but not raised again.
LoadOutcomeSwallowed(response) ==
    IF response.kind = "neterror" THEN "URLError" ELSE "ok"

\* How DorisStreamLoader.load ends: urlopen raises HTTPError for every
\* status outside 200..299 (a PUT is not redirected) and URLError when
\* there is no response; load logs and re-raises both.
LoadOutcome(response) ==
    IF response.kind = "neterror" THEN "URLError"
    ELSE IF response.code < 200 \/ response.code >= 300 THEN "HTTPError"
    ELSE "ok"

\* DorisStreamLoader.load(database, table, records)
load(database, table, records, response) ==
    /\ Len(http) < MaxLoads
    /\ uuids' = uuids + 1
    /\ http' = Append(http, [request |-> BuildRequest(database, table, records,
                                                      uuids + 1),
                             response |-> response])
    /\ lastload' = [op |-> "load", call |-> lastload.call + 1,
                    outcome |-> LoadOutcome(response)]
    /\ UNCHANGED <<extra_headers, user>>
    /\ UNCHANGED pipevars
    /\ UNCHANGED proxyvars

\* DORIS_STREAM_LOAD_HEADERS: the extra headers an operator may configure.
ExtraHeaders ==
    { << >>,
      << <<"timeout", "10">> >>,
      << <<"format", "csv">> >>,
      << <<"label", "nightly">> >>,
      << <<"timeout", "10">>, <<"LABEL", "nightly">> >> }

LoaderInit ==
    /\ extra_headers \in ExtraHeaders
    /\ user \in {"", "root"}
    /\ http = << >>
    /\ uuids = 0
    /\ lastload = [op |-> "none", call |-> 0, outcome |-> "ok"]

LoaderIdle ==
    /\ extra_headers = << >>
    /\ user = ""
    /\ http = << >>
    /\ uuids = 0
    /\ lastload = [op |-> "none", call |-> 0, outcome |-> "ok"]

\* The destinations and the batch the loader is driven with.
LoaderTargets == { <<"demo", "quotes">>, <<"demo", "items">> }
LoaderBatches == { <<1, 2>> }

\* ------------------------------------------------------ specifications
Init == PipeInit /\ ProxyIdle /\ LoaderIdle

Next ==
    \/ \E item \in Items(spider), ok \in BOOLEAN : process_item(item, ok)
    \/ \E failing \in SUBSET (DOMAIN buffers) : close_spider(failing)

Spec == Init /\ [][Next]_vars

ProxyStart == ProxyInit /\ PipeIdle /\ LoaderIdle

ProxyNext ==
    \/ \E reply \in Srandmember : process_request(reply)
    \/ \E m \in CallerProxies : new_request(m)
    \/ \E s \in SUBSET Members : store_change(s)

ProxySpec == ProxyStart /\ [][ProxyNext]_vars

\* The pipeline with direct flush calls, run by a spider whose own
\* get_doris_target spreads the items over two destinations.
FlushStart ==
    /\ Init
    /\ spider = [getter |-> "custom", doris_database |-> Absent,
                 doris_table |-> Absent]
    /\ default_database = "demo"
    /\ default_table = "items"
    /\ batch_size = 2

FlushItems == [description : {TRUE}, target : { <<>>, <<"demo", "authors">> }]

FlushNext ==
    \/ \E item \in FlushItems, ok \in BOOLEAN : process_item(item, ok)
    \/ \E failing \in SUBSET (DOMAIN buffers) : close_spider(failing)
    \/ \E key \in DOMAIN buffers, ok \in BOOLEAN : flush(key, ok)

FlushSpec == FlushStart /\ [][FlushNext]_vars

LoaderStart == LoaderInit /\ PipeIdle /\ ProxyIdle

LoaderNext ==
    \E key \in LoaderTargets, records \in LoaderBatches, response \in Responses :
        load(key[1], key[2], records, response)

LoaderSpec == LoaderStart /\ [][LoaderNext]_vars

\* ============================================================ history
KeyOf(call) == <<call.database, call.table>>
Range(seq) == { seq[i] : i \in 1 .. Len(seq) }

\* The load calls made for one destination, in call order.
LoadsFor(key) == SelectSeq(loads, LAMBDA c : KeyOf(c) = key)

RECURSIVE Ids(_)
Ids(pairs) ==
    IF pairs = << >> THEN << >> ELSE <<Head(pairs)[1]>> \o Ids(Tail(pairs))

\* The records submitted to one destination, in submission order.
SubmittedTo(key) == Ids(SelectSeq(submitted, LAMBDA p : p[2] = key))

RECURSIVE Concat(_)
Concat(cs) ==
    IF cs = << >> THEN << >> ELSE Head(cs).records \o Concat(Tail(cs))

AllOk == \A i \in 1 .. Len(loads) : loads[i].ok
LastLoad == loads[Len(loads)]

C3_ShutdownDrainsEveryBuffer ==
    [][ closes' # closes =>
          /\ last'.outcome = "ok"
          /\ \A key \in DOMAIN buffers :
                buffers[key] # << >> =>
                    \E i \in (Len(loads) + 1) .. Len(loads') :
                        KeyOf(loads'[i]) = key ]_vars

C5_LoadCount ==
    (batch_size >= 1 /\ AllOk) =>
        \A key \in DOMAIN buffers :
            LET n == Len(SubmittedTo(key))
                b == batch_size
                L == LoadsFor(key)
                full == n \div b
            IN  /\ closes = 0 =>
                      /\ Len(L) = full
                      /\ \A i \in 1 .. Len(L) : Len(L[i].records) = b
                /\ closes >= 1 =>
                      /\ Len(L) = (n + b - 1) \div b
                      /\ Len(L) = full + (IF n % b > 0 THEN 1 ELSE 0)
                      /\ \A i \in 1 .. full : Len(L[i].records) = b
                      /\ n % b > 0 => Len(L[full + 1].records) = n % b

C5_Witness ==
    /\ AllOk
    /\ closes >= 1
    /\ batch_size = 2
    /\ \E key \in DOMAIN buffers :
          /\ Len(SubmittedTo(key)) = 3
          /\ Len(LoadsFor(key)) = 2
          /\ Len(LoadsFor(key)[2].records) = 1

OverrideYields(sp, item) ==
    /\ sp.getter # "absent"
    /\ CallGetter(sp, item) # << >>
    /\ Truthy(CallGetter(sp, item)[1])
    /\ Truthy(CallGetter(sp, item)[2])
StaticYields(sp) == Truthy(sp.doris_database) /\ Truthy(sp.doris_table)
GlobalYields == Truthy(default_database) /\ Truthy(default_table)

\* C7 (as stated): when the spider's get_doris_target returns a non-empty
\* (database, table) pair for the item, the item is buffered under exactly
\* that pair, whatever the spider's attributes and the pipeline defaults.
C7_OverrideWins ==
    (last.op = "process_item" /\ OverrideYields(spider, last.item)) =>
        /\ last.outcome # "ValueError"
        /\ last.key = CallGetter(spider, last.item)

\* C8 (as stated): when the override yields no non-empty pair and the
\* spider's attributes do not form a non-empty pair, the pipeline defaults
\* are the target whenever both are non-empty, and resolution does not fail.
C8_FallThroughToGlobalDefaults ==
    ( /\ last.op = "process_item"
      /\ ~OverrideYields(spider, last.item)
      /\ ~StaticYields(spider)
      /\ GlobalYields ) =>
        /\ last.outcome # "ValueError"
        /\ last.key = <<default_database, default_table>>

C10_SelectIsIdempotent ==
    lastreq.op = "process_request" =>
        /\ Truthy(lastreq.before) =>
              (meta = lastreq.before /\ ~lastreq.queried)
        /\ (~Truthy(lastreq.before) /\ meta # lastreq.before) => Truthy(meta)
        /\ lastreq.queried = ~Truthy(lastreq.before)

C10_Witness ==
    /\ lastreq.op = "process_request"
    /\ Truthy(lastreq.before)
    /\ queries >= 1
    /\ calls >= 2
    /\ store # {}
    /\ \A m \in store : Decode(m.data) # meta

\* The text of what the store replied: the member as a string, None when
\* the key is empty or the query failed.
Yielded(reply) ==
    IF reply.kind # "member" THEN None
    ELSE IF reply.member.type = "bytes"
         THEN Join(SelectSeq(reply.member.data, LAMBDA b : b # BadByte))
         ELSE Join(reply.member.data)

\* C11: for a request with no proxy assigned, process_request gives it the
\* proxy the store yields (a member whose text is non-empty); otherwise the
\* fallback proxy if one is configured; otherwise it leaves the request as
\* it was, without a proxy.  With an empty store and no fallback the
\* request ends with no proxy.
C11_SelectionPolicy ==
    (lastreq.op = "process_request" /\ ~Truthy(lastreq.before)) =>
        /\ lastreq.queried
        /\ IF Truthy(Yielded(lastreq.reply))
           THEN meta = Yielded(lastreq.reply)
           ELSE IF Truthy(fallback_proxy)
                THEN meta = fallback_proxy
                ELSE meta = lastreq.before /\ ~Truthy(meta)

C11_Witness ==
    /\ lastreq.op = "process_request"
    /\ lastreq.before = Absent
    /\ lastreq.reply.kind = "nil"
    /\ store = {}
    /\ ~Truthy(fallback_proxy)
    /\ meta = Absent

\* C12: when the store query fails, process_request still completes: it
\* applies the fallback / no-proxy policy, and it has issued exactly one
\* query for the request; no call issues more than one query.
C12_StoreFailureDegrades ==
    [][ calls' # calls =>
          /\ queries' \in {queries, queries + 1}
          /\ lastreq'.reply.kind = "error" =>
                /\ queries' = queries + 1
                /\ calls' = calls + 1
                /\ lastreq'.op = "process_request"
                /\ meta' = IF Truthy(fallback_proxy) THEN fallback_proxy
                           ELSE meta ]_vars

C12_Witness ==
    /\ lastreq.op = "process_request"
    /\ lastreq.reply.kind = "error"
    /\ store # {}
    /\ Truthy(fallback_proxy)
    /\ meta = fallback_proxy
    /\ queries = 1

\* The label header a request carries on the wire.
SentLabel(i) == http[i].request.headers["Label"]

\* C13 (as stated): the label header sent by each load call differs from
\* the label sent by every other load call, whatever extra headers are
\* configured.
C13_LabelsUnique ==
    \A i, j \in 1 .. Len(http) : i # j => SentLabel(i) # SentLabel(j)

\* C14: every load call sends exactly one HTTP PUT and never retries; it
\* returns normally iff the response is 2xx, and raises on any other status
\* and on a network failure.
C14_OnePutPerLoad ==
    /\ Len(http) = lastload.call
    /\ \A i \in 1 .. Len(http) : http[i].request.method = "PUT"
    /\ lastload.op = "load" =>
          LET response == http[Len(http)].response
          IN  /\ lastload.outcome = "ok" <=>
                    (response.kind = "status" /\ response.code \in 200 .. 299)
              /\ response.kind = "neterror" => lastload.outcome = "URLError"
              /\ (response.kind = "status" /\ response.code \notin 200 .. 299)
                    => lastload.outcome = "HTTPError"

C14_Witness ==
    /\ Len(http) = 3
    /\ http[1].response.code = 500
    /\ http[2].response.kind = "neterror"
    /\ http[3].response.code = 204
    /\ lastload.outcome = "ok"

C16_DestinationIsolation ==
    [][ /\ \A key \in DOMAIN buffers :
              buffers'[key] # buffers[key] =>
                  /\ last'.op \in {"process_item", "flush"} => key = last'.key
                  /\ last'.op = "close_spider" =>
                        \E i \in (Len(loads) + 1) .. Len(loads') :
                            <<loads'[i].database, loads'[i].table>> = key
        /\ (DOMAIN buffers') \ (DOMAIN buffers) \subseteq {last'.key}
        /\ \A i \in (Len(loads) + 1) .. Len(loads') :
              /\ last'.op \in {"process_item", "flush"} =>
                    <<loads'[i].database, loads'[i].table>> = last'.key
              /\ \A r \in { loads'[i].records[n] : n \in 1 .. Len(loads'[i].records) } :
                    \E j \in 1 .. Len(submitted') :
                        /\ submitted'[j][1] = r
                        /\ submitted'[j][2] = <<loads'[i].database, loads'[i].table>>
      ]_vars

C16_Witness ==
    \E k1, k2 \in DOMAIN buffers :
        /\ k1 # k2
        /\ last.op = "process_item"
        /\ last.key = k1
        /\ LoadsFor(k1) # << >>
        /\ buffers[k1] = << >>
        /\ buffers[k2] # << >>

\* C17: load is never called with an empty batch: a flush of an empty
\* buffer makes no load call and changes no buffer, and close_spider makes
\* load calls only for destinations whose buffer is non-empty.
C17_NoEmptyLoad ==
    [][ /\ \A i \in (Len(loads) + 1) .. Len(loads') :
              loads'[i].records # << >>
        /\ (flushes' # flushes /\ buffers[last'.key] = << >>) =>
              /\ loads' = loads
              /\ buffers' = buffers
              /\ buffer_keys' = buffer_keys
              /\ last'.outcome = "ok"
        /\ closes' # closes =>
              \A i \in (Len(loads) + 1) .. Len(loads') :
                  buffers[<<loads'[i].database, loads'[i].table>>] # << >>
      ]_vars

C17_Witness ==
    /\ last.op = "flush"
    /\ last.outcome = "ok"
    /\ buffers[last.key] = << >>
    /\ Len(LoadsFor(last.key)) = 1
    /\ Len(LoadsFor(last.key)[1].records) = 2

\* C18: after a close_spider in which no load failed every buffer is empty,
\* and a second close_spider makes no load call and changes no buffer.
C18_ShutdownIdempotent ==
    [][ closes' # closes =>
          /\ last'.outcome = "ok" =>
                \A key \in DOMAIN buffers' : buffers'[key] = << >>
          /\ (last.op = "close_spider" /\ last.outcome = "ok") =>
                /\ loads' = loads
                /\ buffers' = buffers
                /\ buffer_keys' = buffer_keys
                /\ last'.outcome = "ok" ]_vars

C18_Witness ==
    /\ closes = 2
    /\ last.op = "close_spider"
    /\ last.outcome = "ok"
    /\ AllOk
    /\ batch_size = 2
    /\ \E i \in 1 .. Len(loads) : Len(loads[i].records) = 1
    /\ \A key \in DOMAIN buffers : buffers[key] = << >>

\* C19: with batch_size <= 1 (0 and negative values included) and no load
\* failure, every process_item that buffers a record flushes it at once in
\* a load call carrying exactly that record: every buffer is empty between
\* calls and close_spider makes no load call.
C19_DegenerateThreshold ==
    (batch_size <= 1 /\ AllOk) =>
        /\ \A key \in DOMAIN buffers : buffers[key] = << >>
        /\ Len(loads) = Len(submitted)
        /\ \A i \in 1 .. Len(loads) :
              /\ loads[i].records = <<submitted[i][1]>>
              /\ KeyOf(loads[i]) = submitted[i][2]

C19_Witness ==
    /\ batch_size = 0
    /\ AllOk
    /\ closes >= 1
    /\ Len(loads) = 3
    /\ Cardinality(DOMAIN buffers) = 2
====
